---------------------------- MODULE Spec2Model ----------------------------
(***************************************************************************)
(* LiSearch: the tool-calling conversation loop (src/llm/base.py), its     *)
(* Gemini adapter and tool registry (src/llm/gemini.py) and the data       *)
(* access functions (src/database/queries.py).                             *)
(*                                                                         *)
(* Python values are tagged records [t, v]: t is the Python type and v the *)
(* payload.  A dict's payload is a TLA+ function from key strings to       *)
(* Python values, a list's payload a sequence.  Text is a TLA+ string and  *)
(* concatenation is \o.                                                    *)
(***************************************************************************)
EXTENDS Integers, Sequences, FiniteSets, TLC

\* ------------------------------------------------------------------ bounds

\* Largest max_iterations a caller passes.
MaxIter == 2

\* Largest number of parts in one provider response.
MaxParts == 2

\* Longest conversation_history a caller passes.
MaxHist == 1

\* Most tool requests the model emits over one run.
MaxRequests == 2

\* Most arguments of a direct call of execute_tool_call.
MaxArgs == 2

\* Most exchanges a session holds before the input.
MaxExchanges == 6

\* st.session_state.messages[-10:]
ContextWindow == 10

\* max_iterations=5
UiMaxIterations == 5

\* ----------------------------------------------------------- Python values

PyInt(n) == [t |-> "int", v |-> n]
PyStr(s) == [t |-> "str", v |-> s]
PyNone == [t |-> "none", v |-> 0]
PyList(s) == [t |-> "list", v |-> s]
PyDict(f) == [t |-> "dict", v |-> f]

\* The empty mapping {}.
EmptyMap == [k \in {} |-> PyNone]

\* The decimal numerals int() is applied to in the model.
NumeralValue == [k \in {"5"} |-> 5]

\* int(x) succeeds on a number and on a numeral string; it raises ValueError
\* on any other string and TypeError on None.
CanInt(x) ==
    \/ x.t = "int"
    \/ x.t = "str" /\ x.v \in DOMAIN NumeralValue

IntOf(x) == IF x.t = "int" THEN x.v ELSE NumeralValue[x.v]

Digit(d) == CASE d = 0 -> "0" [] d = 1 -> "1" [] d = 2 -> "2" [] d = 3 -> "3"
              [] d = 4 -> "4" [] d = 5 -> "5" [] d = 6 -> "6" [] d = 7 -> "7"
              [] d = 8 -> "8" [] d = 9 -> "9"

RECURSIVE NatStr(_)
NatStr(n) == IF n < 10 THEN Digit(n) ELSE NatStr(n \div 10) \o Digit(n % 10)

\* str(n) of an integer.
IntStr(n) == IF n < 0 THEN "-" \o NatStr(-n) ELSE NatStr(n)

\* ------------------------------------------------- data access functions

\* The parameters of each function of queries.py, in declaration order.
Params == [
    get_top_selling_products |-> <<"category", "limit", "days">>,
    get_trending_products |-> <<"days", "limit">>,
    search_products_by_description |-> <<"search_term">>,
    get_low_stock_products |-> <<"limit">>,
    get_sales_summary_by_category |-> <<"days">>,
    get_product_details |-> <<"product_id", "product_name">>,
    get_recent_transactions |-> <<"limit">>]

\* The default of each parameter that has one.
Defaults == [
    get_top_selling_products |->
        [category |-> PyNone, limit |-> PyInt(10), days |-> PyInt(30)],
    get_trending_products |-> [days |-> PyInt(7), limit |-> PyInt(10)],
    search_products_by_description |-> EmptyMap,
    get_low_stock_products |-> [limit |-> PyInt(20)],
    get_sales_summary_by_category |-> [days |-> PyInt(30)],
    get_product_details |-> [product_id |-> PyNone, product_name |-> PyNone],
    get_recent_transactions |-> [limit |-> PyInt(10)]]

\* The parameters each function passes through int() when it builds the request.
IntParams == [
    get_top_selling_products |-> {"limit", "days"},
    get_trending_products |-> {"days", "limit"},
    search_products_by_description |-> {},
    get_low_stock_products |-> {"limit"},
    get_sales_summary_by_category |-> {"days"},
    get_product_details |-> {},
    get_recent_transactions |-> {"limit"}]

QueryFunctions == DOMAIN Params

ParamSet(fn) == {Params[fn][i] : i \in 1..Len(Params[fn])}

\* The first element of the sequence order that is in the set S.
RECURSIVE FirstIn(_, _)
FirstIn(order, S) ==
    IF Head(order) \in S THEN Head(order) ELSE FirstIn(Tail(order), S)

\* The keys a mapping of the model can carry, in the order Python iterates them.
KeyOrder == <<"category", "limit", "days", "search_term", "product_id",
              "product_name", "foo", "id", "name", "error">>

\* What the function returns when its try block raises.
FailureValue(fn) == IF fn = "get_product_details" THEN PyNone ELSE PyList(<<>>)

\* The request a function sends: rpc(fn, {'p_<param>': value}), numeric
\* parameters converted by int().
RpcRequest(fn, bound) ==
    [fn |-> fn,
     params |-> [k \in {"p_" \o p : p \in ParamSet(fn)} |->
                   LET p == CHOOSE q \in ParamSet(fn) : "p_" \o q = k
                   IN IF p \in IntParams[fn] THEN PyInt(IntOf(bound[p]))
                      ELSE bound[p]]]

\* What the function makes of the backend's answer: response.data, or for
\* get_product_details its first row, None when there is none.
ResponseValue(fn, data) ==
    IF fn = "get_product_details"
    THEN IF Len(data) > 0 THEN PyDict(data[1]) ELSE PyNone
    ELSE PyList([i \in 1..Len(data) |-> PyDict(data[i])])

\* A body that calls the backend a second time when the first call fails.
QueryBody_Retries(fn, bound, b) ==
    IF \E p \in IntParams[fn] : ~CanInt(bound[p])
    THEN [raised |-> FALSE, desc |-> "", value |-> FailureValue(fn), rpc |-> <<>>]
    ELSE IF b.kind = "fault"
    THEN [raised |-> FALSE, desc |-> "", value |-> FailureValue(fn),
          rpc |-> <<RpcRequest(fn, bound), RpcRequest(fn, bound)>>]
    ELSE [raised |-> FALSE, desc |-> "", value |-> ResponseValue(fn, b.data),
          rpc |-> <<RpcRequest(fn, bound)>>]

\* A body without its except clause: a failing backend call leaves it.
QueryBody_NoExcept(fn, bound, b) ==
    IF \E p \in IntParams[fn] : ~CanInt(bound[p])
    THEN [raised |-> FALSE, desc |-> "", value |-> FailureValue(fn), rpc |-> <<>>]
    ELSE IF b.kind = "fault"
    THEN [raised |-> TRUE, desc |-> "backend unreachable", value |-> PyNone,
          rpc |-> <<RpcRequest(fn, bound)>>]
    ELSE [raised |-> FALSE, desc |-> "", value |-> ResponseValue(fn, b.data),
          rpc |-> <<RpcRequest(fn, bound)>>]

\* The body of a data access function on bound arguments, with backend
\* outcome b: the whole body is one try block, so a failing int() or a
\* failing backend call yields the failure value.  rpc lists the requests
\* that reached the backend.
QueryBody(fn, bound, b) ==
    IF \E p \in IntParams[fn] : ~CanInt(bound[p])
    THEN [raised |-> FALSE, desc |-> "", value |-> FailureValue(fn), rpc |-> <<>>]
    ELSE IF b.kind = "fault"
    THEN [raised |-> FALSE, desc |-> "", value |-> FailureValue(fn),
          rpc |-> <<RpcRequest(fn, bound)>>]
    ELSE [raised |-> FALSE, desc |-> "", value |-> ResponseValue(fn, b.data),
          rpc |-> <<RpcRequest(fn, bound)>>]

\* The keyword arguments the function does not take.
Unexpected(fn, args) == DOMAIN args \ ParamSet(fn)

\* The parameters without a default that the call leaves out.
Missing(fn, args) ==
    {p \in ParamSet(fn) : p \notin DOMAIN Defaults[fn] /\ p \notin DOMAIN args}

\* func(**tool_args): Python binds the keyword arguments first and raises
\* TypeError for an unexpected name or a missing required parameter; only
\* then does the body run.
CallFunction(fn, args, b) ==
    IF Unexpected(fn, args) # {}
    THEN [raised |-> TRUE,
          desc |-> fn \o "() got an unexpected keyword argument '"
                   \o FirstIn(KeyOrder, Unexpected(fn, args)) \o "'",
          value |-> PyNone, rpc |-> <<>>]
    ELSE IF Missing(fn, args) # {}
    THEN [raised |-> TRUE,
          desc |-> fn \o "() missing 1 required positional argument: '"
                   \o FirstIn(Params[fn], Missing(fn, args)) \o "'",
          value |-> PyNone, rpc |-> <<>>]
    ELSE QueryBody(fn,
             [p \in ParamSet(fn) |->
                 IF p \in DOMAIN args THEN args[p] ELSE Defaults[fn][p]],
             b)

\* ------------------------------------------------------------ tool registry

\* GeminiLLM.tool_map: tool name -> function of queries.py.
tool_map == [
    get_top_selling_products |-> "get_top_selling_products",
    get_trending_products |-> "get_trending_products",
    search_products_by_description |-> "search_products_by_description",
    get_low_stock_products |-> "get_low_stock_products",
    get_sales_summary_by_category |-> "get_sales_summary_by_category",
    get_product_details |-> "get_product_details",
    get_recent_transactions |-> "get_recent_transactions"]

\* A declaration list that also declares a tool that is not registered.
GEMINI_TOOLS_Extra ==
    <<"get_top_selling_products", "get_trending_products",
      "search_products_by_description", "get_low_stock_products",
      "get_sales_summary_by_category", "get_product_details",
      "get_recent_transactions", "get_low_stock">>

\* GEMINI_TOOLS: the 'name' of each declaration, in list order.
GEMINI_TOOLS ==
    <<"get_top_selling_products", "get_trending_products",
      "search_products_by_description", "get_low_stock_products",
      "get_sales_summary_by_category", "get_product_details",
      "get_recent_transactions">>

\* execute_tool_call without its membership test: tool_map[tool_name] raises
\* KeyError inside the try block.
ExecuteToolCall_NoLookupGuard(tool_name, tool_args, b) ==
    IF tool_name \notin DOMAIN tool_map
    THEN [raised |-> FALSE, desc |-> "",
          value |-> PyDict([error |-> PyStr("'" \o tool_name \o "'")]),
          invoked |-> <<>>, rpc |-> <<>>]
    ELSE LET r == CallFunction(tool_map[tool_name], tool_args, b)
         IN [raised |-> FALSE, desc |-> "",
             value |-> IF r.raised THEN PyDict([error |-> PyStr(r.desc)])
                       ELSE r.value,
             invoked |-> <<tool_map[tool_name]>>, rpc |-> r.rpc]

\* execute_tool_call without its except clause: a fault of the call leaves it.
ExecuteToolCall_NoExcept(tool_name, tool_args, b) ==
    IF tool_name \notin DOMAIN tool_map
    THEN [raised |-> FALSE, desc |-> "",
          value |-> PyDict([error |-> PyStr("Unknown tool: " \o tool_name)]),
          invoked |-> <<>>, rpc |-> <<>>]
    ELSE LET r == CallFunction(tool_map[tool_name], tool_args, b)
         IN [raised |-> r.raised, desc |-> r.desc, value |-> r.value,
             invoked |-> <<tool_map[tool_name]>>, rpc |-> r.rpc]

\* GeminiLLM.execute_tool_call with backend outcome b.  raised says whether
\* an exception leaves the method, invoked lists the data access functions
\* it called and rpc the requests that reached the backend.
ExecuteToolCall(tool_name, tool_args, b) ==
    IF tool_name \notin DOMAIN tool_map
    THEN [raised |-> FALSE, desc |-> "",
          value |-> PyDict([error |-> PyStr("Unknown tool: " \o tool_name)]),
          invoked |-> <<>>, rpc |-> <<>>]
    ELSE LET r == CallFunction(tool_map[tool_name], tool_args, b)
         IN [raised |-> FALSE, desc |-> "",
             value |-> IF r.raised THEN PyDict([error |-> PyStr(r.desc)])
                       ELSE r.value,
             invoked |-> <<tool_map[tool_name]>>, rpc |-> r.rpc]


\* str(x) of a Python value that is not a list or a dict.
PyStrOf(x) ==
    CASE x.t = "str" -> x.v
      [] x.t = "int" -> IntStr(x.v)
      [] x.t = "none" -> "None"
      [] OTHER -> "<object>"

\* The keys of mapping f in iteration order.
RECURSIVE KeysInOrder(_, _)
KeysInOrder(order, f) ==
    IF order = <<>> THEN <<>>
    ELSE IF Head(order) \in DOMAIN f
         THEN <<Head(order)>> \o KeysInOrder(Tail(order), f)
         ELSE KeysInOrder(Tail(order), f)

RECURSIVE Spaces(_)
Spaces(n) == IF n = 0 THEN "" ELSE " " \o Spaces(n - 1)

\* ",\n".join(items)
RECURSIVE JoinLines(_)
JoinLines(items) ==
    IF Len(items) = 0 THEN ""
    ELSE IF Len(items) = 1 THEN items[1]
    ELSE items[1] \o ",\n" \o JoinLines(Tail(items))

\* json.dumps(x, indent=2) at nesting depth level.
RECURSIVE JsonDumps(_, _)
JsonDumps(x, level) ==
    CASE x.t = "int" -> IntStr(x.v)
      [] x.t = "str" -> "\"" \o x.v \o "\""
      [] x.t = "none" -> "null"
      [] x.t = "list" ->
            IF Len(x.v) = 0 THEN "[]"
            ELSE "[\n"
                 \o JoinLines([i \in 1..Len(x.v) |->
                        Spaces(2 * (level + 1)) \o JsonDumps(x.v[i], level + 1)])
                 \o "\n" \o Spaces(2 * level) \o "]"
      [] x.t = "dict" ->
            LET keys == KeysInOrder(KeyOrder, x.v)
            IN IF Len(keys) = 0 THEN "{}"
               ELSE "{\n"
                    \o JoinLines([i \in 1..Len(keys) |->
                           Spaces(2 * (level + 1)) \o "\"" \o keys[i] \o "\": "
                           \o JsonDumps(x.v[keys[i]], level + 1)])
                    \o "\n" \o Spaces(2 * level) \o "}"

\* A rendering without the branch for error results.
FormatToolResponse_NoErrorBranch(tool_name, tool_result) ==
    IF tool_result.t \in {"list", "dict"}
    THEN JsonDumps(tool_result, 0)
    ELSE PyStrOf(tool_result)

\* GeminiLLM.format_tool_response.
FormatToolResponse(tool_name, tool_result) ==
    IF tool_result.t = "dict" /\ "error" \in DOMAIN tool_result.v
    THEN "Error executing " \o tool_name \o ": " \o PyStrOf(tool_result.v["error"])
    ELSE IF tool_result.t \in {"list", "dict"}
    THEN JsonDumps(tool_result, 0)
    ELSE PyStrOf(tool_result)


\* ------------------------------------------------------------ model adapter

\* f"<Role>: {content}\n" for the roles chat() knows; other roles are skipped.
PromptPart(msg) ==
    CASE msg.role = "system" -> <<"System: " \o msg.content \o "\n">>
      [] msg.role = "user" -> <<"User: " \o msg.content \o "\n">>
      [] msg.role = "assistant" -> <<"Assistant: " \o msg.content \o "\n">>
      [] OTHER -> <<>>

RECURSIVE PromptParts(_)
PromptParts(msgs) ==
    IF msgs = <<>> THEN <<>>
    ELSE PromptPart(Head(msgs)) \o PromptParts(Tail(msgs))

RECURSIVE JoinNewline(_)
JoinNewline(parts) ==
    IF Len(parts) = 0 THEN ""
    ELSE IF Len(parts) = 1 THEN parts[1]
    ELSE parts[1] \o "\n" \o JoinNewline(Tail(parts))

\* full_prompt of GeminiLLM.chat.
BuildPrompt(msgs) == JoinNewline(PromptParts(msgs))

\* A part of a provider response: function_call holds the call when the
\* part carries one (at most one element), text is '' when it carries none.
TextPart(s) == [function_call |-> <<>>, text |-> s]
CallPart(name, args) ==
    [function_call |-> <<[name |-> name, arguments |-> args]>>, text |-> ""]

\* The loop over candidates and parts of GeminiLLM.chat.
RECURSIVE ParseParts(_, _)
ParseParts(parts, acc) ==
    IF parts = <<>> THEN acc
    ELSE LET part == Head(parts)
             withCall == IF Len(part.function_call) > 0
                         THEN [acc EXCEPT !.tool_calls = @ \o part.function_call]
                         ELSE acc
             withText == IF part.text # ""
                         THEN [withCall EXCEPT !.content = @ \o part.text]
                         ELSE withCall
         IN ParseParts(Tail(parts), withText)

EmptyResult == [content |-> "", tool_calls |-> <<>>]

Placeholder == "[Calling tools...]"

\* chat() whose except clause returns the result built so far.
GeminiChat_KeepsParsed(o) ==
    IF o.kind = "raise"
    THEN [content |-> "Error: " \o o.desc, tool_calls |-> <<>>]
    ELSE IF o.bad_at > 0
    THEN [content |-> "Error: " \o o.desc,
          tool_calls |->
              ParseParts(SubSeq(o.parts, 1, o.bad_at - 1), EmptyResult).tool_calls]
    ELSE LET r == ParseParts(o.parts, EmptyResult)
         IN IF Len(r.tool_calls) > 0 /\ r.content = ""
            THEN [r EXCEPT !.content = Placeholder]
            ELSE r

\* chat() without the placeholder for a response that only calls tools.
GeminiChat_NoPlaceholder(o) ==
    IF o.kind = "raise"
    THEN [content |-> "Error: " \o o.desc, tool_calls |-> <<>>]
    ELSE IF o.bad_at > 0
    THEN [content |-> "Error: " \o o.desc, tool_calls |-> <<>>]
    ELSE ParseParts(o.parts, EmptyResult)

\* GeminiLLM.chat on provider outcome o.  kind "raise": building the prompt,
\* converting the tools or generate_content raised str(e) = desc.  Otherwise
\* the provider answered with parts, and bad_at > 0 says that handling part
\* bad_at raised (after the parts before it were handled).
GeminiChat(o) ==
    IF o.kind = "raise"
    THEN [content |-> "Error: " \o o.desc, tool_calls |-> <<>>]
    ELSE IF o.bad_at > 0
    THEN [content |-> "Error: " \o o.desc, tool_calls |-> <<>>]
    ELSE LET r == ParseParts(o.parts, EmptyResult)
         IN IF Len(r.tool_calls) > 0 /\ r.content = ""
            THEN [r EXCEPT !.content = Placeholder]
            ELSE r


\* -------------------------------------------------------------- environment

\* The tool requests the model emits in a run: a well-formed one, one with
\* an argument the function does not take, one for a tool that does not exist.
ModelRequests == {
    [name |-> "get_low_stock_products", arguments |-> [limit |-> PyInt(5)]],
    [name |-> "get_low_stock_products", arguments |-> [foo |-> PyInt(1)]],
    [name |-> "no_such_tool", arguments |-> EmptyMap]}

Parts ==
    {TextPart("Here you go.")}
    \cup {CallPart(r.name, r.arguments) : r \in ModelRequests}

PartSeqs == UNION {[1..n -> Parts] : n \in 0..MaxParts}

\* str(e) of the faults of the provider call.
FaultTexts == {"", "timeout"}

\* What a provider call does: it raises; it answers with parts; or it
\* answers and the handling of a part raises (parts lists the parts up to
\* that one: the later ones are never read).
ProviderOutcomes ==
    {[kind |-> "raise", desc |-> d, parts |-> <<>>, bad_at |-> 0] :
        d \in FaultTexts}
    \cup {[kind |-> "ok", desc |-> "", parts |-> ps, bad_at |-> 0] :
        ps \in PartSeqs}
    \cup {[kind |-> "ok", desc |-> d, parts |-> ps, bad_at |-> Len(ps)] :
            d \in FaultTexts, ps \in PartSeqs \ {<<>>}}

Row == [id |-> PyInt(1), name |-> PyStr("Gin")]

\* What the backend does with a request: it fails, or answers with rows.
BackendOutcomes == {
    [kind |-> "fault", data |-> <<>>],
    [kind |-> "ok", data |-> <<>>],
    [kind |-> "ok", data |-> <<Row>>]}

\* The names, argument names and argument values of direct calls of
\* execute_tool_call.
CallNames == DOMAIN tool_map \cup {"no_such_tool", "get_low_stock", ""}

ArgKeys == {"limit", "days", "search_term", "foo"}

ArgValues == {PyInt(5), PyStr("5"), PyStr("abc"), PyNone}

ArgMaps ==
    UNION {[S -> ArgValues] : S \in {T \in SUBSET ArgKeys : Cardinality(T) <= MaxArgs}}

HistoryMessages == {
    [role |-> "system", content |-> "You are a helpful assistant."]}

Histories == UNION {[1..n -> HistoryMessages] : n \in 0..MaxHist}

UserMessages == {"What is low in stock?"}

\* ------------------------------------------------------------ orchestrator

VARIABLES
    pc,                    \* idle, loop, chat, tools, done, raised: where the
                           \* run is; direct: execute_tool_call is called alone
    max_iterations,        \* the caller's argument
    user_message,          \* the caller's argument
    conversation_history,  \* the caller's list object
    messages,              \* the list chat_with_tools works on
    aliased,               \* messages is the caller's list object
    tool_calls_made,
    iterations,
    response,              \* the last value chat() returned
    tool_idx,              \* position of the for loop in response['tool_calls']
    result,                \* the returned dict
    history0,              \* the caller's list as it was at the call
    chatLog,               \* one entry per chat() call: what it was given and
                           \* returned, whether it faulted, how many
                           \* function calls it had parsed by then and how
                           \* many parts of an answer read to its end
                           \* carried text
    execLog,               \* one entry per execute_tool_call() call: its input,
                           \* its outcome, whether its backend call failed
    call,                  \* a direct execute_tool_call: its input and outcome
    session,               \* st.session_state.messages of the chat UI
    ui,                    \* none: no chat UI; ready: it waits for input;
                           \* busy: it handles one; shown: it has answered
    peer                   \* a second chat_with_tools run of the same caller,
                           \* concurrent with the first: its locals

vars == <<pc, max_iterations, user_message, conversation_history, messages,
          aliased, tool_calls_made, iterations, response, tool_idx, result,
          history0, chatLog, execLog, call,
         session, ui, peer>>

Fallback ==
    "I apologize, but I'm having trouble processing your request. Please try rephrasing."

NoResult == [returned |-> FALSE]

NoCall == [made |-> FALSE]

NoPeer == [present |-> FALSE]

\* while iterations <= max_iterations
LoopCond_OffByOne(it, max) == it <= max

\* while iterations < max_iterations
LoopCond(it, max) == it < max

\* A test that takes every response for a final one.
NoToolCalls_Always(resp) == TRUE

\* A test that takes any response with content for a final one.
NoToolCalls_OnContent(resp) == resp.content # ""

\* if not response.get('tool_calls')
NoToolCalls(resp) == Len(resp.tool_calls) = 0

\* The final result with iterations counted from 0.
FinalResult_CountsFromZero(resp, made, it) ==
    [response |-> resp.content, tool_calls_made |-> made, iterations |-> it - 1]

\* The dict returned when the response carries no tool calls.
FinalResult(resp, made, it) ==
    [response |-> resp.content, tool_calls_made |-> made, iterations |-> it]

\* The exhausted result without its marker.
ExhaustedResult_NoMarker(made, it) ==
    [response |-> Fallback, tool_calls_made |-> made, iterations |-> it]

\* The dict returned when the loop ends.
ExhaustedResult(made, it) ==
    [response |-> Fallback, tool_calls_made |-> made, iterations |-> it,
     error |-> "max_iterations_reached"]

\* Tracking that puts the newest record first.
RecordToolCall_Prepends(made, tool_name, tool_args, tool_result) ==
    <<[name |-> tool_name, arguments |-> tool_args, result |-> tool_result]>>
    \o made

\* tool_calls_made.append({...})
RecordToolCall(made, tool_name, tool_args, tool_result) ==
    Append(made,
           [name |-> tool_name, arguments |-> tool_args, result |-> tool_result])

\* Only the result turn is appended.
ToolTurns_ResultOnly(tool_name, formatted_result) ==
    <<[role |-> "user", content |-> formatted_result]>>

\* The two synthetic turns appended for one tool call.
ToolTurns(tool_name, formatted_result) ==
    <<[role |-> "assistant", content |-> "[Tool call: " \o tool_name \o "]"],
      [role |-> "user", content |-> formatted_result]>>

\* A for loop left after its first pass.
ForLoopDone_AfterFirst(idx, n) == TRUE

\* for tool_call in response['tool_calls']: the pass over element idx of n
\* was the last one.
ForLoopDone(idx, n) == idx = n

\* What the provider and the backend do in a run started from the chat UI
\* and in two concurrent runs: the provider answers with text, asks for one
\* tool, or fails; the backend fails or answers with a row.
SmallProviderOutcomes == {
    [kind |-> "ok", desc |-> "", parts |-> <<TextPart("Here you go.")>>,
     bad_at |-> 0],
    [kind |-> "ok", desc |-> "",
     parts |-> <<CallPart("get_low_stock_products", [limit |-> PyInt(5)])>>,
     bad_at |-> 0],
    [kind |-> "raise", desc |-> "timeout", parts |-> <<>>, bad_at |-> 0]}

SmallBackendOutcomes == {
    [kind |-> "fault", data |-> <<>>],
    [kind |-> "ok", data |-> <<Row>>]}

NoOutcome ==
    [raised |-> FALSE, desc |-> "", value |-> PyNone, invoked |-> <<>>,
     rpc |-> <<>>]

\* A run of chat_with_tools or execute_tool_call by itself, without the
\* chat UI and without a concurrent run.
OneRun == ui = "none" /\ ~peer.present

\* A caller about to call chat_with_tools.
RunInit ==
    /\ pc = "idle"
    /\ max_iterations \in -1..MaxIter
    /\ user_message \in UserMessages
    /\ conversation_history \in Histories
    /\ history0 = conversation_history
    /\ messages = <<>>
    /\ aliased = FALSE
    /\ tool_calls_made = <<>>
    /\ iterations = 0
    /\ response = EmptyResult
    /\ tool_idx = 0
    /\ result = NoResult
    /\ chatLog = <<>>
    /\ execLog = <<>>
    /\ call = NoCall
    /\ session = <<>>
    /\ ui = "none"
    /\ peer = NoPeer

\* A caller about to call execute_tool_call on its own.
DirectInit ==
    /\ pc = "direct"
    /\ call \in [made : {FALSE}, tool_name : CallNames, tool_args : ArgMaps,
                 backend : BackendOutcomes, out : {NoOutcome}]
    /\ max_iterations = 1
    /\ user_message \in UserMessages
    /\ conversation_history = <<>>
    /\ history0 = <<>>
    /\ messages = <<>>
    /\ aliased = FALSE
    /\ tool_calls_made = <<>>
    /\ iterations = 0
    /\ response = EmptyResult
    /\ tool_idx = 0
    /\ result = NoResult
    /\ chatLog = <<>>
    /\ execLog = <<>>
    /\ session = <<>>
    /\ ui = "none"
    /\ peer = NoPeer

Init == RunInit \/ DirectInit

\* Lines 105-109: messages = conversation_history or []; the user message is
\* appended.  A non-empty list is truthy, so messages is then the caller's
\* own list; an empty one is falsy and messages is a new list.
Enter ==
    /\ pc = "idle"
    /\ aliased' = (Len(conversation_history) > 0)
    /\ messages' = Append(IF Len(conversation_history) > 0
                          THEN conversation_history ELSE <<>>,
                          [role |-> "user", content |-> user_message])
    /\ conversation_history' =
          IF aliased' THEN messages' ELSE conversation_history
    /\ tool_calls_made' = <<>>
    /\ iterations' = 0
    /\ pc' = "loop"
    /\ UNCHANGED <<session, ui, peer>>
    /\ UNCHANGED <<max_iterations, user_message, response, tool_idx, result,
                   history0, chatLog, execLog, call>>

\* Line 111-112: the loop test holds and the iteration is counted.
Iterate ==
    /\ pc = "loop"
    /\ LoopCond(iterations, max_iterations)
    /\ iterations' = iterations + 1
    /\ pc' = "chat"
    /\ UNCHANGED <<session, ui, peer>>
    /\ UNCHANGED <<max_iterations, user_message, conversation_history,
                   messages, aliased, tool_calls_made, response, tool_idx,
                   result, history0, chatLog, execLog, call>>

\* Lines 154-160: the loop test fails.
Exhaust ==
    /\ pc = "loop"
    /\ ~LoopCond(iterations, max_iterations)
    /\ result' = ExhaustedResult(tool_calls_made, iterations)
    /\ pc' = "done"
    /\ UNCHANGED <<session, ui, peer>>
    /\ UNCHANGED <<max_iterations, user_message, conversation_history,
                   messages, aliased, tool_calls_made, iterations, response,
                   tool_idx, history0, chatLog, execLog, call>>

\* Lines 115-124: chat() is called on messages; a response without tool
\* calls is returned, one with tool calls starts the for loop.
ModelCall ==
    /\ pc = "chat"
    /\ \E o \in IF OneRun THEN ProviderOutcomes ELSE SmallProviderOutcomes :
         LET resp == GeminiChat(o)
         IN /\ OneRun => Len(execLog) + Len(resp.tool_calls) <= MaxRequests
            /\ response' = resp
            /\ chatLog' = Append(chatLog,
                                 [messages |-> messages,
                                  prompt |-> BuildPrompt(messages),
                                  faulted |-> (o.kind = "raise" \/ o.bad_at > 0),
                                  texts |->
                                      IF o.kind = "raise" \/ o.bad_at > 0 THEN 0
                                      ELSE Cardinality({i \in 1..Len(o.parts) :
                                                          o.parts[i].text # ""}),
                                  parsed |->
                                      Len(ParseParts(SubSeq(o.parts, 1, o.bad_at - 1),
                                                     EmptyResult).tool_calls),
                                  response |-> resp])
            /\ IF NoToolCalls(resp)
               THEN /\ result' = FinalResult(resp, tool_calls_made, iterations)
                    /\ pc' = "done"
                    /\ tool_idx' = tool_idx
               ELSE /\ result' = result
                    /\ pc' = "tools"
                    /\ tool_idx' = 1
    /\ UNCHANGED <<session, ui, peer>>
    /\ UNCHANGED <<max_iterations, user_message, conversation_history,
                   messages, aliased, tool_calls_made, iterations, history0,
                   execLog, call>>

\* Lines 127-152: one pass of the for loop.  The tool is executed, the call
\* recorded, the result rendered and the two synthetic turns appended.  An
\* exception leaving execute_tool_call would leave chat_with_tools too.
ToolStep ==
    /\ pc = "tools"
    /\ \E b \in IF OneRun THEN BackendOutcomes ELSE SmallBackendOutcomes :
         LET tool_call == response.tool_calls[tool_idx]
             tool_name == tool_call.name
             tool_args == tool_call.arguments
             out == ExecuteToolCall(tool_name, tool_args, b)
         IN /\ execLog' = Append(execLog,
                                 [name |-> tool_name, arguments |-> tool_args,
                                  backend_failed |->
                                      (Len(out.rpc) > 0 /\ b.kind = "fault"),
                                  out |-> out])
            /\ IF out.raised
               THEN /\ pc' = "raised"
                    /\ UNCHANGED <<tool_calls_made, messages,
                                   conversation_history, tool_idx>>
               ELSE /\ tool_calls_made' =
                          RecordToolCall(tool_calls_made, tool_name, tool_args,
                                         out.value)
                    /\ messages' = messages \o
                          ToolTurns(tool_name,
                                    FormatToolResponse(tool_name, out.value))
                    /\ conversation_history' =
                          IF aliased THEN messages' ELSE conversation_history
                    /\ tool_idx' = tool_idx + 1
                    /\ pc' = IF ForLoopDone(tool_idx, Len(response.tool_calls))
                             THEN "loop" ELSE "tools"
    /\ UNCHANGED <<session, ui, peer>>
    /\ UNCHANGED <<max_iterations, user_message, aliased, iterations, response,
                   result, history0, chatLog, call>>

\* execute_tool_call called on its own.
Invoke ==
    /\ pc = "direct"
    /\ ~call.made
    /\ call' = [call EXCEPT
                  !.made = TRUE,
                  !.out = ExecuteToolCall(call.tool_name, call.tool_args,
                                          call.backend)]
    /\ UNCHANGED <<session, ui, peer>>
    /\ UNCHANGED <<pc, max_iterations, user_message, conversation_history,
                   messages, aliased, tool_calls_made, iterations, response,
                   tool_idx, result, history0, chatLog, execLog>>

Next == Enter \/ Iterate \/ Exhaust \/ ModelCall \/ ToolStep \/ Invoke

Spec == Init /\ [][Next]_vars

\* The calls of one run follow each other without outside scheduling: a run
\* that can take a step takes it.
FairSpec == Spec /\ WF_vars(Next)

\* ------------------------------------------------------ two concurrent runs

\* The user message of the second run.
PeerUserMessages == {"What sold best?"}

\* A caller about to start two chat_with_tools runs at once, giving both the
\* same list object as conversation_history or each a list of its own.
ConcInit ==
    /\ pc = "idle"
    /\ max_iterations \in 1..MaxIter
    /\ user_message \in UserMessages
    /\ conversation_history \in Histories
    /\ history0 = conversation_history
    /\ messages = <<>>
    /\ aliased = FALSE
    /\ tool_calls_made = <<>>
    /\ iterations = 0
    /\ response = EmptyResult
    /\ tool_idx = 0
    /\ result = NoResult
    /\ chatLog = <<>>
    /\ execLog = <<>>
    /\ call = NoCall
    /\ session = <<>>
    /\ ui = "none"
    /\ \E same \in BOOLEAN, max \in 1..MaxIter, msg \in PeerUserMessages,
          hist \in Histories :
         /\ same => hist = conversation_history
         /\ peer = [present |-> TRUE, same_list |-> same, pc |-> "idle",
                    max_iterations |-> max, user_message |-> msg,
                    history0 |-> hist, own |-> FALSE, messages |-> <<>>,
                    tool_calls_made |-> <<>>, iterations |-> 0,
                    response |-> EmptyResult, tool_idx |-> 0,
                    result |-> NoResult]

\* The list the second run works on: its own, or the caller's list object,
\* which the first run was given too.
PeerMessages == IF peer.own THEN peer.messages ELSE conversation_history

\* The second run appends turns to the list it works on.
PeerAppend(turns) ==
    IF peer.own
    THEN /\ UNCHANGED <<conversation_history, messages>>
    ELSE /\ conversation_history' = conversation_history \o turns
         /\ messages' = IF aliased THEN conversation_history' ELSE messages

\* Lines 105-109 in the second run.
PeerEnter ==
    /\ peer.present
    /\ peer.pc = "idle"
    /\ LET given == IF peer.same_list THEN conversation_history
                    ELSE peer.history0
           turn == [role |-> "user", content |-> peer.user_message]
       IN IF peer.same_list /\ Len(given) > 0
          THEN /\ conversation_history' = Append(conversation_history, turn)
               /\ messages' = IF aliased THEN conversation_history' ELSE messages
               /\ peer' = [peer EXCEPT !.pc = "loop", !.own = FALSE,
                                       !.tool_calls_made = <<>>,
                                       !.iterations = 0]
          ELSE /\ UNCHANGED <<conversation_history, messages>>
               /\ peer' = [peer EXCEPT !.pc = "loop", !.own = TRUE,
                                       !.messages = Append(given, turn),
                                       !.tool_calls_made = <<>>,
                                       !.iterations = 0]
    /\ UNCHANGED <<pc, max_iterations, user_message, aliased, tool_calls_made,
                   iterations, response, tool_idx, result, history0, chatLog,
                   execLog, call, session, ui>>

\* Lines 111-112 in the second run.
PeerIterate ==
    /\ peer.present
    /\ peer.pc = "loop"
    /\ LoopCond(peer.iterations, peer.max_iterations)
    /\ peer' = [peer EXCEPT !.iterations = @ + 1, !.pc = "chat"]
    /\ UNCHANGED <<pc, max_iterations, user_message, conversation_history,
                   messages, aliased, tool_calls_made, iterations, response,
                   tool_idx, result, history0, chatLog, execLog, call,
                   session, ui>>

\* Lines 154-160 in the second run.
PeerExhaust ==
    /\ peer.present
    /\ peer.pc = "loop"
    /\ ~LoopCond(peer.iterations, peer.max_iterations)
    /\ peer' = [peer EXCEPT
                  !.result = ExhaustedResult(peer.tool_calls_made,
                                             peer.iterations),
                  !.pc = "done"]
    /\ UNCHANGED <<pc, max_iterations, user_message, conversation_history,
                   messages, aliased, tool_calls_made, iterations, response,
                   tool_idx, result, history0, chatLog, execLog, call,
                   session, ui>>

\* Lines 115-124 in the second run: chat() is called on the list it works on.
PeerModelCall ==
    /\ peer.present
    /\ peer.pc = "chat"
    /\ \E o \in SmallProviderOutcomes :
         LET resp == GeminiChat(o)
         IN peer' = IF NoToolCalls(resp)
                    THEN [peer EXCEPT
                            !.response = resp,
                            !.result = FinalResult(resp, peer.tool_calls_made,
                                                   peer.iterations),
                            !.pc = "done"]
                    ELSE [peer EXCEPT !.response = resp, !.pc = "tools",
                                      !.tool_idx = 1]
    /\ UNCHANGED <<pc, max_iterations, user_message, conversation_history,
                   messages, aliased, tool_calls_made, iterations, response,
                   tool_idx, result, history0, chatLog, execLog, call,
                   session, ui>>

\* Lines 127-152 in the second run.
PeerToolStep ==
    /\ peer.present
    /\ peer.pc = "tools"
    /\ \E b \in SmallBackendOutcomes :
         LET tool_call == peer.response.tool_calls[peer.tool_idx]
             tool_name == tool_call.name
             tool_args == tool_call.arguments
             out == ExecuteToolCall(tool_name, tool_args, b)
         IN IF out.raised
            THEN /\ peer' = [peer EXCEPT !.pc = "raised"]
                 /\ UNCHANGED <<conversation_history, messages>>
            ELSE /\ PeerAppend(ToolTurns(tool_name,
                                         FormatToolResponse(tool_name,
                                                            out.value)))
                 /\ peer' =
                       [peer EXCEPT
                          !.tool_calls_made =
                              RecordToolCall(@, tool_name, tool_args, out.value),
                          !.messages = IF peer.own
                                       THEN @ \o ToolTurns(tool_name,
                                                FormatToolResponse(tool_name,
                                                                   out.value))
                                       ELSE @,
                          !.tool_idx = @ + 1,
                          !.pc = IF ForLoopDone(peer.tool_idx,
                                                Len(peer.response.tool_calls))
                                 THEN "loop" ELSE "tools"]
    /\ UNCHANGED <<pc, max_iterations, user_message, aliased, tool_calls_made,
                   iterations, response, tool_idx, result, history0, chatLog,
                   execLog, call, session, ui>>

ConcNext ==
    \/ Enter \/ Iterate \/ Exhaust \/ ModelCall \/ ToolStep
    \/ PeerEnter \/ PeerIterate \/ PeerExhaust \/ PeerModelCall \/ PeerToolStep

ConcSpec == ConcInit /\ [][ConcNext]_vars

\* ------------------------------------------------------------- the chat UI

\* SYSTEM_PROMPT
SystemPrompt == "You are a helpful assistant for a liquor store."

\* The stored exchanges of a session: a user entry and the assistant entry
\* that answered it, n times.
SessionOf(n) ==
    [i \in 1..(2 * n) |->
        IF i % 2 = 1
        THEN [role |-> "user", content |-> "q" \o NatStr((i + 1) \div 2)]
        ELSE [role |-> "assistant", content |-> "a" \o NatStr(i \div 2),
              debug_info |-> [iterations |-> 1, tool_calls_made |-> <<>>]]]

Sessions == {SessionOf(n) : n \in 0..MaxExchanges}

\* list[-n:]
LastN(n, list) ==
    IF Len(list) <= n THEN list ELSE SubSeq(list, Len(list) - n + 1, Len(list))

\* A slice that keeps the whole list.
DropLast_KeepsAll(list) == list

\* list[:-1]
DropLast(list) == SubSeq(list, 1, Len(list) - 1)

\* The conversation_history the UI builds from the stored entries.
PrepareHistory(stored) ==
    LET recent == SelectSeq(LastN(ContextWindow, stored),
                            LAMBDA msg : msg.role \in {"user", "assistant"})
    IN <<[role |-> "system", content |-> SystemPrompt]>>
       \o [i \in 1..Len(recent) |->
              [role |-> recent[i].role, content |-> recent[i].content]]

\* The chat UI with a stored session, waiting for input.
AppInit ==
    /\ pc = "app"
    /\ ui = "ready"
    /\ session \in Sessions
    /\ max_iterations = UiMaxIterations
    /\ user_message \in UserMessages
    /\ conversation_history = <<>>
    /\ history0 = <<>>
    /\ messages = <<>>
    /\ aliased = FALSE
    /\ tool_calls_made = <<>>
    /\ iterations = 0
    /\ response = EmptyResult
    /\ tool_idx = 0
    /\ result = NoResult
    /\ chatLog = <<>>
    /\ execLog = <<>>
    /\ call = NoCall
    /\ peer = NoPeer

\* app.py lines 133-167: the input is stored, the history is prepared and
\* chat_with_tools is called with all but its last entry.  The locals of an
\* earlier run are gone.
Submit ==
    /\ pc = "app"
    /\ ui = "ready"
    /\ \E user_input \in UserMessages :
         /\ session' = Append(session, [role |-> "user", content |-> user_input])
         /\ user_message' = user_input
         /\ conversation_history' = DropLast(PrepareHistory(session'))
         /\ history0' = conversation_history'
    /\ max_iterations' = UiMaxIterations
    /\ messages' = <<>>
    /\ aliased' = FALSE
    /\ tool_calls_made' = <<>>
    /\ iterations' = 0
    /\ response' = EmptyResult
    /\ tool_idx' = 0
    /\ result' = NoResult
    /\ chatLog' = <<>>
    /\ execLog' = <<>>
    /\ pc' = "idle"
    /\ ui' = "busy"
    /\ UNCHANGED <<call, peer>>

\* result.get('response', ...)
ResponseText(res) ==
    IF "response" \in DOMAIN res THEN res.response
    ELSE "I apologize, but I could not generate a response."

\* A store that appends the entry twice.
StoreEntry_Twice(stored, entry) == stored \o <<entry, entry>>

\* st.session_state.messages.append(entry)
StoreEntry(stored, entry) == Append(stored, entry)

\* app.py lines 169-196: the returned text is stored as the assistant entry.
Reply ==
    /\ pc = "done"
    /\ ui = "busy"
    /\ session' = StoreEntry(session,
                             [role |-> "assistant",
                              content |-> ResponseText(result),
                              debug_info |->
                                  [iterations |-> result.iterations,
                                   tool_calls_made |-> result.tool_calls_made]])
    /\ pc' = "app"
    /\ ui' = "shown"
    /\ UNCHANGED <<max_iterations, user_message, conversation_history,
                   messages, aliased, tool_calls_made, iterations, response,
                   tool_idx, result, history0, chatLog, execLog, call, peer>>

\* f"<cross mark> Error: {str(e)}"; the cross mark character U+274C is
\* written [x] here.
ErrorMessage(desc) == "[x] Error: " \o desc

\* app.py lines 198-207: an exception left the try block, raised by
\* chat_with_tools or, after it returned, by the display of its result at
\* lines 172-186; the error text is stored as the assistant entry.
Fail ==
    /\ ui = "busy"
    /\ pc \in {"raised", "done"}
    /\ \E desc \in IF pc = "raised" THEN {execLog[Len(execLog)].out.desc}
                    ELSE FaultTexts :
         session' = StoreEntry(session,
                               [role |-> "assistant",
                                content |-> ErrorMessage(desc)])
    /\ pc' = "app"
    /\ ui' = "shown"
    /\ UNCHANGED <<max_iterations, user_message, conversation_history,
                   messages, aliased, tool_calls_made, iterations, response,
                   tool_idx, result, history0, chatLog, execLog, call, peer>>

\* app.py lines 77-79: the Clear Conversation button.
Clear ==
    /\ pc = "app"
    /\ ui \in {"ready", "shown"}
    /\ session' = <<>>
    /\ ui' = "ready"
    /\ UNCHANGED <<pc, max_iterations, user_message, conversation_history,
                   messages, aliased, tool_calls_made, iterations, response,
                   tool_idx, result, history0, chatLog, execLog, call, peer>>

AppNext ==
    \/ Submit \/ Enter \/ Iterate \/ Exhaust \/ ModelCall \/ ToolStep
    \/ Reply \/ Fail \/ Clear

AppSpec == AppInit /\ [][AppNext]_vars


\* ------------------------------------------------------------------ claims

\* The run has returned a dict to its caller.
Returned == pc = "done"

\* The returned dict carries the exhaustion marker.
Exhausted == Returned /\ "error" \in DOMAIN result

\* The tool requests of the first n chat() responses, in emission order.
RECURSIVE Emitted(_, _)
Emitted(log, n) ==
    IF n = 0 THEN <<>> ELSE Emitted(log, n - 1) \o log[n].response.tool_calls

\* C1: for max_iterations >= 1 the run terminates, chat() is called at most
\* max_iterations times, iterations never exceeds max_iterations, and the
\* returned iterations is the number of chat() calls made.
C1_BoundedTermination ==
    /\ [](max_iterations >= 1 =>
            /\ iterations <= max_iterations
            /\ Len(chatLog) <= max_iterations
            /\ Returned => result.iterations = Len(chatLog))
    /\ ((pc = "idle" /\ max_iterations >= 1) ~> Returned)

C1_Witness ==
    /\ Returned
    /\ max_iterations = 2
    /\ Len(chatLog) = 2
    /\ result.iterations = 2

\* C2: when the first chat() response carries no tool requests the run has
\* returned with iterations 1, no exhaustion marker, an empty
\* tool_calls_made and that response's content, and no tool was executed.
C2_FirstResponseFinal ==
    (Len(chatLog) >= 1 /\ chatLog[1].response.tool_calls = <<>>) =>
        /\ Returned
        /\ result.iterations = 1
        /\ "error" \notin DOMAIN result
        /\ result.tool_calls_made = <<>>
        /\ result.response = chatLog[1].response.content
        /\ execLog = <<>>

C2_Witness ==
    /\ Returned
    /\ Len(chatLog) = 1
    /\ result.response = "Here you go."
    /\ result.iterations = 1

\* C3: with max_iterations >= 1, a returned run all of whose responses
\* carried a tool request is exhausted (marker max_iterations_reached, the
\* fallback text, iterations = max_iterations), and the marker is returned
\* only after max_iterations responses none of which was free of tool
\* requests.
C3_ExhaustedIffAllTools ==
    (Returned /\ max_iterations >= 1) =>
        /\ (\A i \in 1..Len(chatLog) : chatLog[i].response.tool_calls # <<>>) =>
              /\ "error" \in DOMAIN result
              /\ result.error = "max_iterations_reached"
              /\ result.response = Fallback
              /\ result.iterations = max_iterations
        /\ "error" \in DOMAIN result =>
              /\ Len(chatLog) = max_iterations
              /\ \A i \in 1..Len(chatLog) : chatLog[i].response.tool_calls # <<>>

C3_Witness ==
    /\ Exhausted
    /\ max_iterations = 2
    /\ Len(chatLog) = 2
    /\ result.response = Fallback

\* C4: on return tool_calls_made holds one record per tool request the model
\* emitted, in iteration order and within an iteration in emission order;
\* each record has the request's name and arguments and the value
\* execute_tool_call returned for it.
C4_OneRecordPerRequest ==
    Returned =>
        LET made == result.tool_calls_made
            reqs == Emitted(chatLog, Len(chatLog))
        IN /\ Len(made) = Len(reqs)
           /\ Len(execLog) = Len(reqs)
           /\ \A i \in 1..Len(reqs) :
                 /\ made[i].name = reqs[i].name
                 /\ made[i].arguments = reqs[i].arguments
                 /\ execLog[i].name = reqs[i].name
                 /\ execLog[i].arguments = reqs[i].arguments
                 /\ made[i].result = execLog[i].out.value

\* An exhausted run whose only response carried two different requests.
C4_Witness ==
    /\ Exhausted
    /\ max_iterations = 1
    /\ Len(chatLog[1].response.tool_calls) = 2
    /\ Len(result.tool_calls_made) = 2
    /\ result.tool_calls_made[1].name # result.tool_calls_made[2].name

\* C5: after the run the caller's history list has the length and contents
\* it had before the call.
C5_CallerHistoryUntouched ==
    (Returned /\ max_iterations >= 1) => conversation_history = history0

\* C6: the returned response is non-empty in a run that is not exhausted and
\* is the fallback text in one that is.
C6_ResponseNonEmpty ==
    Returned =>
        IF "error" \in DOMAIN result
        THEN result.response = Fallback
        ELSE result.response # ""

\* C7: a call with max_iterations <= 0 is rejected before the loop: it raises,
\* returns no result, calls the model never and appends nothing.
C7_RejectsNonPositive ==
    (max_iterations <= 0 /\ pc \in {"done", "raised"}) =>
        /\ pc = "raised"
        /\ result = NoResult
        /\ chatLog = <<>>
        /\ conversation_history = history0
        /\ messages = <<>>

\* C8: a chat() call that faults returns 'Error: <description>' and no tool
\* calls, whatever it had parsed; the run then has returned at that
\* iteration, not exhausted, with that text, with the records of the earlier
\* iterations, and with no tool executed for the faulted call.
C8_ChatFaultEndsRun ==
    \A k \in 1..Len(chatLog) :
        chatLog[k].faulted =>
            /\ chatLog[k].response.tool_calls = <<>>
            /\ \E d \in FaultTexts : chatLog[k].response.content = "Error: " \o d
            /\ k = Len(chatLog)
            /\ Returned
            /\ "error" \notin DOMAIN result
            /\ result.iterations = k
            /\ result.response = chatLog[k].response.content
            /\ result.tool_calls_made = tool_calls_made
            /\ Len(tool_calls_made) = Len(Emitted(chatLog, k - 1))
            /\ Len(execLog) = Len(Emitted(chatLog, k - 1))

\* The second call faulted after it had parsed a function call, and the run
\* kept the record of the first iteration.
C8_Witness ==
    /\ Returned
    /\ Len(chatLog) = 2
    /\ chatLog[2].faulted
    /\ chatLog[2].parsed = 1
    /\ Len(result.tool_calls_made) = 1
    /\ result.response = "Error: timeout"

\* C9: execute_tool_call on a name that is no key of tool_map returns
\* {'error': 'Unknown tool: <name>'}, does not raise, calls no data access
\* function and sends nothing to the backend.
C9_UnknownTool ==
    /\ (pc = "direct" /\ call.made /\ call.tool_name \notin DOMAIN tool_map) =>
          /\ ~call.out.raised
          /\ call.out.value =
                PyDict([error |-> PyStr("Unknown tool: " \o call.tool_name)])
          /\ call.out.invoked = <<>>
          /\ call.out.rpc = <<>>
    /\ \A i \in 1..Len(execLog) :
          execLog[i].name \notin DOMAIN tool_map =>
             /\ ~execLog[i].out.raised
             /\ execLog[i].out.value =
                   PyDict([error |-> PyStr("Unknown tool: " \o execLog[i].name)])
             /\ execLog[i].out.invoked = <<>>
             /\ execLog[i].out.rpc = <<>>

C9_Witness ==
    /\ pc = "direct"
    /\ call.made
    /\ call.tool_name = "get_low_stock"
    /\ call.tool_args = [limit |-> PyInt(5)]
    /\ call.out.value.v["error"].v = "Unknown tool: get_low_stock"

DirectBinds ==
    /\ pc = "direct"
    /\ call.made
    /\ call.tool_name \in DOMAIN tool_map
    /\ Unexpected(tool_map[call.tool_name], call.tool_args) = {}
    /\ Missing(tool_map[call.tool_name], call.tool_args) = {}

\* The value the function of a direct call works with for parameter p.
DirectBound(p) ==
    IF p \in DOMAIN call.tool_args THEN call.tool_args[p]
    ELSE Defaults[tool_map[call.tool_name]][p]

\* C11 as stated: every execute_tool_call sends exactly one request to the
\* backend, for every tool name and every arguments mapping.
C11_ExactlyOneBackendCall ==
    /\ (pc = "direct" /\ call.made) => Len(call.out.rpc) = 1
    /\ \A i \in 1..Len(execLog) : Len(execLog[i].out.rpc) = 1

\* C11 amended: an execute_tool_call sends at most one request to the
\* backend, also when the backend fails, and each invocation sends its own.
\* It sends exactly one when the tool is registered, the arguments bind and
\* every numeric argument converts by int(), and none otherwise.
C11_AtMostOneBackendCall ==
    /\ (pc = "direct" /\ call.made) =>
          /\ Len(call.out.rpc) <= 1
          /\ Len(call.out.rpc) = 1 <=>
                /\ DirectBinds
                /\ \A p \in IntParams[tool_map[call.tool_name]] :
                      CanInt(DirectBound(p))
          /\ Len(call.out.rpc) = 1 => call.out.rpc[1].fn = call.tool_name
    /\ \A i \in 1..Len(execLog) :
          /\ Len(execLog[i].out.rpc) <= 1
          /\ Len(execLog[i].out.rpc) = 1 <=>
                /\ execLog[i].name \in DOMAIN tool_map
                /\ Unexpected(tool_map[execLog[i].name], execLog[i].arguments) = {}

\* The backend failed on the one request of a call whose limit was '5'.
C11_Witness ==
    /\ pc = "direct"
    /\ call.made
    /\ call.tool_name = "get_low_stock_products"
    /\ call.tool_args = [limit |-> PyStr("5")]
    /\ call.backend.kind = "fault"
    /\ Len(call.out.rpc) = 1
    /\ call.out.rpc[1].params["p_limit"] = PyInt(5)

\* The default the documentation gives for a numeric parameter.
DocumentedDefault(fn, p) ==
    IF p = "limit"
    THEN IF fn = "get_low_stock_products" THEN 20 ELSE 10
    ELSE IF fn = "get_trending_products" THEN 7 ELSE 30

\* The arguments without the numeric ones that are None.
WithoutNulls(fn, args) ==
    [p \in {q \in DOMAIN args : ~(q \in IntParams[fn] /\ args[q] = PyNone)} |->
        args[p]]

\* C12: a numeric parameter that is omitted or None is replaced by its
\* default (limit 10, or 20 for low stock; days 30, or 7 for trending) before
\* the backend is called: the call sends the request it sends with the None
\* arguments left out.
C12_NullMeansDefault ==
    (/\ DirectBinds
     /\ \A p \in IntParams[tool_map[call.tool_name]] \cap DOMAIN call.tool_args :
           call.tool_args[p] = PyNone \/ CanInt(call.tool_args[p])) =>
        LET fn == tool_map[call.tool_name]
            plain == WithoutNulls(fn, call.tool_args)
        IN /\ call.out.rpc = CallFunction(fn, plain, call.backend).rpc
           /\ \A p \in IntParams[fn] \ DOMAIN plain :
                 /\ Len(call.out.rpc) = 1
                 /\ call.out.rpc[1].params["p_" \o p] =
                       PyInt(DocumentedDefault(fn, p))

\* C13: a data access function whose backend call fails raises nothing and
\* returns [] (None for get_product_details); in a run a failed
\* get_low_stock_products call is recorded with result [] and the user turn
\* appended for it has the content "[]".
C13_BackendFaultIsEmpty ==
    /\ (DirectBinds /\ Len(call.out.rpc) = 1 /\ call.backend.kind = "fault") =>
          /\ ~call.out.raised
          /\ call.out.value =
                IF call.tool_name = "get_product_details" THEN PyNone
                ELSE PyList(<<>>)
    /\ \A i \in 1..Len(execLog) :
          (execLog[i].backend_failed
             /\ execLog[i].name = "get_low_stock_products"
             /\ pc # "raised") =>
             /\ tool_calls_made[i].result = PyList(<<>>)
             /\ messages[Len(history0) + 2 * i + 1] =
                   [role |-> "user", content |-> "[]"]

\* The second model call was given the "[]" of a failed backend call.
C13_Witness ==
    /\ Len(chatLog) = 2
    /\ Len(execLog) = 1
    /\ execLog[1].backend_failed
    /\ execLog[1].name = "get_low_stock_products"
    /\ chatLog[2].messages[Len(chatLog[2].messages)].content = "[]"


\* C14: whenever chat() returns tool calls its content is not empty: it is
\* the provider's text, or '[Calling tools...]' when the provider sent none.
C14_ContentWithToolCalls ==
    \A k \in 1..Len(chatLog) :
        chatLog[k].response.tool_calls # <<>> =>
            /\ chatLog[k].response.content # ""
            /\ chatLog[k].texts = 0 <=> chatLog[k].response.content = Placeholder

\* A response of two function calls and no text.
C14_Witness ==
    /\ Len(chatLog) >= 1
    /\ Len(chatLog[1].response.tool_calls) = 2
    /\ chatLog[1].texts = 0
    /\ chatLog[1].response.content = "[Calling tools...]"


\* The run has passed line 106: messages holds the user message.
Entered == pc \in {"loop", "chat", "tools", "done", "raised"}

\* The records of made name the requests reqs, in the same order.
SameRequests(made, reqs) ==
    /\ Len(made) = Len(reqs)
    /\ \A i \in 1..Len(reqs) :
          /\ made[i].name = reqs[i].name
          /\ made[i].arguments = reqs[i].arguments

\* C18: the run returns at its first tool-free response and not before; if
\* that is the k-th response, the result has iterations = k, no exhaustion
\* marker, the content of that response, and one record for each request
\* of responses 1..k-1.
C18_ReturnsAtFirstToolFree ==
    /\ \A k \in 1..Len(chatLog) :
          Len(chatLog[k].response.tool_calls) = 0 =>
             /\ k = Len(chatLog)
             /\ k <= max_iterations
             /\ Returned /\ ~Exhausted
             /\ result.iterations = k
             /\ result.response = chatLog[k].response.content
             /\ SameRequests(result.tool_calls_made, Emitted(chatLog, k - 1))
    /\ (Returned /\ ~Exhausted) =>
          /\ Len(chatLog) >= 1
          /\ Len(chatLog[Len(chatLog)].response.tool_calls) = 0

\* One tool request, then a tool-free answer: iterations 2 and one record.
C18_Witness ==
    /\ Returned /\ ~Exhausted
    /\ Len(chatLog) = 2
    /\ Len(chatLog[1].response.tool_calls) = 1
    /\ result.iterations = 2
    /\ Len(result.tool_calls_made) = 1

\* The turns the records of made stand for, in order.
RECURSIVE TurnsOf(_)
TurnsOf(made) ==
    IF made = <<>> THEN <<>>
    ELSE LET r == made[Len(made)]
         IN TurnsOf(SubSeq(made, 1, Len(made) - 1)) \o
            <<[role |-> "assistant",
               content |-> "[Tool call: " \o r.name \o "]"],
              [role |-> "user",
               content |-> FormatToolResponse(r.name, r.result)]>>

\* The message list a run that executed the records of made must hold.
ExpectedMessages(made) ==
    history0 \o <<[role |-> "user", content |-> user_message]>> \o TurnsOf(made)

\* C19: once the user message is appended, the working list is the initial
\* history, the user message, and one assistant/user pair per executed
\* request in execution order; its length is len(history) + 1 + 2 * records;
\* and every step leaves the entries already in the list where they were.
C19_MessagesAppendOnly ==
    /\ [](Entered =>
            /\ messages = ExpectedMessages(tool_calls_made)
            /\ Len(messages) = Len(history0) + 1 + 2 * Len(tool_calls_made))
    /\ [][/\ Len(messages') >= Len(messages)
          /\ SubSeq(messages', 1, Len(messages)) = messages]_vars

\* A returned run that started from a non-empty history and ran two tools.
C19_Witness ==
    /\ Returned
    /\ Len(history0) = 1
    /\ Len(tool_calls_made) = 2
    /\ Len(messages) = 6
    /\ messages[3].content = "[Tool call: get_low_stock_products]"

\* C20: requests are executed in emission order, each result is in the list
\* before the next request is executed, chat() is called only when every
\* request emitted so far has been executed, and the list each chat() call
\* receives holds the rendered result of every earlier request.
C20_StrictSequencing ==
    Entered =>
        /\ Len(execLog) <= Len(Emitted(chatLog, Len(chatLog)))
        /\ SameRequests(execLog,
                        SubSeq(Emitted(chatLog, Len(chatLog)), 1, Len(execLog)))
        /\ pc # "raised" => Len(messages) = Len(history0) + 1 + 2 * Len(execLog)
        /\ pc \in {"chat", "loop"} =>
              Len(execLog) = Len(Emitted(chatLog, Len(chatLog)))
        /\ \A k \in 1..Len(chatLog) :
              LET n == Len(Emitted(chatLog, k - 1))
              IN /\ n <= Len(execLog)
                 /\ Len(chatLog[k].messages) = Len(history0) + 1 + 2 * n
                 /\ \A i \in 1..n :
                       chatLog[k].messages[Len(history0) + 1 + 2 * i] =
                          [role |-> "user",
                           content |->
                              FormatToolResponse(execLog[i].name,
                                                 execLog[i].out.value)]

\* The second chat() call of a run whose first response asked for two tools.
C20_Witness ==
    /\ Len(chatLog) = 2
    /\ Len(chatLog[1].response.tool_calls) = 2
    /\ Len(execLog) = 2
    /\ Len(chatLog[2].messages) = Len(history0) + 5


\* pat occurs in text.
Occurs(pat, text) ==
    \E i \in 1..(Len(text) - Len(pat) + 1) :
        SubSeq(text, i, i + Len(pat) - 1) = pat

\* The keys a reader of the rendered text finds: k is found when the text
\* holds the member "k": of a JSON object.
ParsedKeys(text) ==
    {KeyOrder[i] : i \in {j \in 1..Len(KeyOrder) :
                             Occurs("\"" \o KeyOrder[j] \o "\": ", text)}}

\* The keys of a dict result and of every dict inside a list result.
ResultKeys(x) ==
    CASE x.t = "dict" -> DOMAIN x.v
      [] x.t = "list" ->
            UNION {IF x.v[i].t = "dict" THEN DOMAIN x.v[i].v ELSE {} :
                     i \in 1..Len(x.v)}
      [] OTHER -> {}

\* The rendered result of the i-th executed request, as the run appended it.
RenderedResult(i) == messages[Len(history0) + 1 + 2 * i].content

\* C17: the rendered text of every executed request's result holds every key
\* of the result, a key named 'error' included.
C17_RenderKeepsKeys ==
    (Entered /\ pc # "raised") =>
        \A i \in 1..Len(tool_calls_made) :
            ResultKeys(tool_calls_made[i].result) \subseteq
                ParsedKeys(RenderedResult(i))


\* The stored entries as they were when the run was started: the session
\* with the input, without the answer.
StoredAtCall ==
    IF ui = "shown" THEN SubSeq(session, 1, Len(session) - 1) ELSE session

\* C16: the first chat() call of a run started from the chat UI receives the
\* system prompt followed by the last 10 stored user/assistant entries (all
\* of them when there are fewer) in stored order; the last of them is the
\* new user message, which is in the conversation exactly once.
C16_FirstCallConversation ==
    (ui \in {"busy", "shown"} /\ Len(chatLog) >= 1) =>
        LET conv == chatLog[1].messages
            n == Len(StoredAtCall)
            m == IF n < 10 THEN n ELSE 10
            input == [role |-> "user", content |-> user_message]
        IN /\ Len(conv) = m + 1
           /\ conv[1] = [role |-> "system", content |-> SystemPrompt]
           /\ \A i \in 1..m :
                 conv[1 + i] = [role |-> StoredAtCall[n - m + i].role,
                                content |-> StoredAtCall[n - m + i].content]
           /\ conv[Len(conv)] = input
           /\ Cardinality({i \in 1..Len(conv) : conv[i] = input}) = 1

\* A session of six exchanges: the input is the thirteenth entry, and the
\* conversation starts at the fourth.
C16_Witness ==
    /\ ui = "busy"
    /\ Len(session) = 13
    /\ Len(chatLog) = 1
    /\ Len(chatLog[1].messages) = 11
    /\ chatLog[1].messages[2].content = "a2"
    /\ chatLog[1].messages[11].content = user_message


\* The second run has passed line 106.
PeerEntered == peer.present /\ peer.pc \in {"loop", "chat", "tools", "done"}

\* C15: of two concurrent runs each holds the message list it would hold
\* alone: the history it was given, its user message, and the turns of its
\* own tool calls; and each returns the records of its own tool calls.
C15_RunsIndependent ==
    peer.present =>
        /\ (Entered /\ pc # "raised") =>
              messages = ExpectedMessages(tool_calls_made)
        /\ PeerEntered =>
              PeerMessages =
                  peer.history0
                  \o <<[role |-> "user", content |-> peer.user_message]>>
                  \o TurnsOf(peer.tool_calls_made)
        /\ Returned => result.tool_calls_made = tool_calls_made
        /\ (PeerEntered /\ peer.pc = "done") =>
              peer.result.tool_calls_made = peer.tool_calls_made


\* The result of the i-th executed request is an error result.
FailedRequest(i) ==
    /\ execLog[i].out.value.t = "dict"
    /\ "error" \in DOMAIN execLog[i].out.value.v

\* C21: a request whose result is {'error': ...} does not end the run: it
\* is recorded with that result, the turn '[Tool call: <name>]' and then
\* the turn 'Error executing <name>: <error>' are appended, the later
\* requests of the response are executed, and the run ends only on a
\* tool-free response or when the loop test fails.
C21_ToolErrorsDoNotEndRun ==
    /\ pc # "raised"
    /\ Entered =>
          /\ Len(tool_calls_made) = Len(execLog)
          /\ \A i \in 1..Len(execLog) :
                FailedRequest(i) =>
                   /\ tool_calls_made[i].name = execLog[i].name
                   /\ tool_calls_made[i].result = execLog[i].out.value
                   /\ messages[Len(history0) + 2 * i] =
                         [role |-> "assistant",
                          content |-> "[Tool call: " \o execLog[i].name \o "]"]
                   /\ messages[Len(history0) + 1 + 2 * i] =
                         [role |-> "user",
                          content |-> "Error executing " \o execLog[i].name
                                      \o ": "
                                      \o execLog[i].out.value.v["error"].v]
          /\ pc \in {"loop", "chat", "done"} =>
                Len(execLog) = Len(Emitted(chatLog, Len(chatLog)))
          /\ Exhausted => iterations >= max_iterations
          /\ (Returned /\ ~Exhausted) =>
                Len(chatLog[Len(chatLog)].response.tool_calls) = 0

\* The first of two requests was for an unknown tool; the second was
\* executed and the model was called again.
C21_Witness ==
    /\ Len(chatLog) = 2
    /\ Len(chatLog[1].response.tool_calls) = 2
    /\ Len(execLog) = 2
    /\ execLog[1].name = "no_such_tool"
    /\ FailedRequest(1)
    /\ messages[Len(history0) + 3].content =
          "Error executing no_such_tool: Unknown tool: no_such_tool"


\* The tool names declared to the model.
DeclaredNames == {GEMINI_TOOLS[i] : i \in 1..Len(GEMINI_TOOLS)}

\* The result execute_tool_call gives for a name that is not registered.
UnknownToolResult(name) == PyDict([error |-> PyStr("Unknown tool: " \o name)])

\* C22: the declared tool names are the keys of tool_map, each declared
\* once; a request for a declared tool calls the function registered under
\* its name and never gives the 'Unknown tool' error; and every registered
\* function is registered under a declared name.
C22_DeclaredEqualsRegistered ==
    /\ DeclaredNames = DOMAIN tool_map
    /\ Cardinality(DeclaredNames) = Len(GEMINI_TOOLS)
    /\ \A fn \in {tool_map[n] : n \in DOMAIN tool_map} :
          \E n \in DeclaredNames : tool_map[n] = fn
    /\ (pc = "direct" /\ call.made /\ call.tool_name \in DeclaredNames) =>
          /\ call.out.value # UnknownToolResult(call.tool_name)
          /\ call.out.invoked = <<tool_map[call.tool_name]>>
    /\ \A i \in 1..Len(execLog) :
          execLog[i].name \in DeclaredNames =>
             /\ execLog[i].out.value # UnknownToolResult(execLog[i].name)
             /\ execLog[i].out.invoked = <<tool_map[execLog[i].name]>>

\* The last declared tool, called on its own, reached its function.
C22_Witness ==
    /\ pc = "direct"
    /\ call.made
    /\ call.tool_name = GEMINI_TOOLS[Len(GEMINI_TOOLS)]
    /\ call.tool_args = EmptyMap
    /\ call.out.invoked = <<"get_recent_transactions">>
    /\ Len(call.out.rpc) = 1


\* The k-th chat() response carried tool requests.
CarriedRequests(k) == Len(chatLog[k].response.tool_calls) > 0

\* C23: the content of a response that carries tool requests is dropped: no
\* entry of the working list and no entry of a list given to a later
\* chat() call holds it, and a returned 'response' is the content of the
\* last response, which carried no request, or the fallback text of an
\* exhausted run.
C23_ToolResponseTextDropped ==
    Entered =>
        /\ \A j \in 1..Len(chatLog) :
              CarriedRequests(j) =>
                 /\ \A i \in (Len(history0) + 2)..Len(messages) :
                       messages[i].content # chatLog[j].response.content
                 /\ \A k \in (j + 1)..Len(chatLog) :
                       \A i \in (Len(history0) + 2)..Len(chatLog[k].messages) :
                          chatLog[k].messages[i].content #
                             chatLog[j].response.content
        /\ (Returned /\ ~Exhausted) =>
              /\ ~CarriedRequests(Len(chatLog))
              /\ result.response = chatLog[Len(chatLog)].response.content
        /\ Exhausted => result.response = Fallback

\* A response with text and a tool request, then a tool-free answer that
\* is returned.
C23_Witness ==
    /\ Returned /\ ~Exhausted
    /\ Len(chatLog) = 2
    /\ CarriedRequests(1)
    /\ chatLog[1].texts = 1
    /\ chatLog[1].response.content = "Here you go."
    /\ Len(messages) = Len(history0) + 3
    /\ result.response = chatLog[2].response.content


\* The stored list alternates user, assistant; it ends with the input while
\* the input is handled and with an assistant entry otherwise.
SessionAlternates ==
    /\ \A i \in 1..Len(session) :
          session[i].role = IF i % 2 = 1 THEN "user" ELSE "assistant"
    /\ Len(session) % 2 = IF ui = "busy" THEN 1 ELSE 0

\* No stored entry is one of the turns the run appended for its tool calls.
NoSyntheticTurnStored ==
    \A i \in 1..Len(session) :
        \A j \in (Len(history0) + 2)..Len(messages) :
            session[i].content # messages[j].content

\* C24: in the chat UI, taking an input appends the user entry, the run
\* appends nothing, and the end of the handling appends one assistant
\* entry, the returned text or the error text; so the stored list, cleared
\* or not, alternates user, assistant and holds no synthetic tool turn.
C24_TwoEntriesPerInput ==
    /\ [](ui # "none" => SessionAlternates /\ NoSyntheticTurnStored)
    /\ [][/\ (ui = "ready" /\ ui' = "busy") =>
                session' = Append(session, [role |-> "user",
                                            content |-> user_message'])
          /\ (ui = "busy" /\ ui' = "busy") => session' = session
          /\ (ui = "busy" /\ ui' = "shown") =>
                /\ Len(session') = Len(session) + 1
                /\ SubSeq(session', 1, Len(session)) = session
                /\ session'[Len(session')].role = "assistant"
                /\ \/ /\ pc = "done"
                      /\ session'[Len(session')].content = result.response
                   \/ \E desc \in FaultTexts :
                         session'[Len(session')].content =
                            "[x] Error: " \o desc]_vars

\* An exhausted run from an empty session: twelve entries in the working
\* list, two in the stored one.
C24_Witness ==
    /\ ui = "shown"
    /\ "error" \in DOMAIN result
    /\ iterations = UiMaxIterations
    /\ Len(session) = 2
    /\ session[1] = [role |-> "user", content |-> user_message]
    /\ session[2].content = Fallback
    /\ Len(messages) = 12

=============================================================================
